---- MODULE Spec2Model ----
(***************************************************************************)
(* Talkyo utility scripts.                                                 *)
(*                                                                         *)
(*   generate_test_audio.py  (the Fixture Generator): main() and           *)
(*                           generate_audio_with_elevenlabs()              *)
(*   convert_model.py        (the Model Exporter): module body,            *)
(*                           download_and_convert() and the __main__ block *)
(*                                                                         *)
(* The two programs share nothing.  Spec runs the Fixture Generator,       *)
(* SpecExporter runs the Model Exporter.                                   *)
(***************************************************************************)
EXTENDS Integers, Sequences, FiniteSets, TLC

\* ---------------------------------------------------------------- bounds
\* How many times each program is started against the same working directory.
MaxRuns == 2

\* =========================================================================
\*  Fixture Generator  (generate_test_audio.py)
\* =========================================================================

\* test_phrases, lines 59-85.  The Japanese texts are written in romaji; in
\* the source "expected" is the same string as "text" for every phrase.
test_phrases ==
  << [text |-> "konnichiwa",              filename |-> "konnichiwa.wav",
      expected |-> "konnichiwa"],
     [text |-> "arigatou gozaimasu",      filename |-> "arigatou.wav",
      expected |-> "arigatou gozaimasu"],
     [text |-> "sayounara",               filename |-> "sayounara.wav",
      expected |-> "sayounara"],
     [text |-> "kyou wa ii tenki desu ne", filename |-> "weather.wav",
      expected |-> "kyou wa ii tenki desu ne"],
     [text |-> "toshokan de hon wo yonde imasu", filename |-> "library.wav",
      expected |-> "toshokan de hon wo yonde imasu"] >>

\* len(test_phrases), lines 115 and 118
NumPhrases == Len(test_phrases)

Filenames == { test_phrases[k].filename : k \in 1..NumPhrases }

\* Content of a path on disk.
Absent     == <<"absent">>
Empty      == <<"empty">>                \* opened with 'wb', nothing written yet
Audio(r)   == <<"audio", r>>             \* response.content of run r

VARIABLES
  pc,             \* position of the generator process
  run,            \* number of runs started so far
  api_key,        \* os.getenv('ELEVENLABS_API_KEY') is set (truthy)
  dir_exists,     \* TalkyoTests/TestAudio exists
  files,          \* filename -> content of output_dir / filename
  meta,           \* content of output_dir / test_metadata.json
  i,              \* index of the phrase the for loop is at
  success_count,  \* line 87
  resp,           \* outcome of the request of the current phrase
  exc,            \* exception being raised / that ended the run
  calls,          \* filenames of the phrases for which requests.post was called
  oks,            \* filenames of the phrases whose request succeeded
  log,            \* phrases reported by the "Failed to generate" message
  written,        \* audio files written (and closed) in this run
  meta_writes,    \* how many times the metadata document was written in this run
  result,         \* return value of main()
  exit_code,      \* process exit status, -1 while running
  pre_dir,        \* dir_exists at the start of the run
  pre_files,      \* files at the start of the run
  pre_meta,       \* meta at the start of the run
  \* ---- Model Exporter
  e_pc, e_run, installed, hub_ok, artifact, e_trail, e_out, e_exit, pre_artifact

gvars == << pc, run, api_key, dir_exists, files, meta, i, success_count, resp,
            exc, calls, oks, log, written, meta_writes, result, exit_code,
            pre_dir, pre_files, pre_meta >>
evars == << e_pc, e_run, installed, hub_ok, artifact, e_trail, e_out, e_exit,
            pre_artifact >>
vars  == << gvars, evars >>

\* ----------------------------------------------------------------- helpers

\* line 47: "if not api_key"
KeyMissingNever(key) == FALSE
KeyMissing(key) == ~key

\* line 53: output_dir.mkdir(parents=True, exist_ok=True)
ExistOkFalse == FALSE
ExistOk == TRUE

\* Path.mkdir as called on line 53: the outcome for a directory that does or
\* does not exist yet.
Mkdir(exists, exist_ok) ==
  IF exists /\ ~exist_ok THEN "FileExistsError" ELSE "ok"

\* line 32: response.raise_for_status() raises HTTPError for an error status
RaisesForStatusNever(r) == FALSE
RaisesForStatus(r) == r = "http_error"

\* line 40: "except requests.exceptions.RequestException"
CatchesNothing(e) == FALSE
CatchesEverything(e) == TRUE
Catches(e) == e = "RequestException"

\* lines 40-42: what the handler leaves of the target file
FilesAfterFailureCleanup(fs, name) == [fs EXCEPT ![name] = Absent]
FilesAfterFailure(fs, name) == fs

\* lines 96-109: the metadata document of a run
MetadataEntriesSucceeded ==
  [ k \in 1..Cardinality({ j \in 1..NumPhrases : test_phrases[j].filename \in oks }) |->
      LET idx == CHOOSE j \in 1..NumPhrases :
                   /\ test_phrases[j].filename \in oks
                   /\ Cardinality({ m \in 1..j : test_phrases[m].filename \in oks }) = k
      IN [filename |-> test_phrases[idx].filename,
          text |-> test_phrases[idx].text,
          expected_transcription |-> test_phrases[idx].expected] ]
MetadataEntries ==
  [ k \in 1..NumPhrases |->
      [filename |-> test_phrases[k].filename,
       text |-> test_phrases[k].text,
       expected_transcription |-> test_phrases[k].expected] ]

Metadata(r) ==
  <<"json", r, [test_audio_files |-> MetadataEntries,
                audio_format |-> "wav",
                sample_rate |-> 22050,
                channels |-> 1,
                voice_model |-> "eleven_multilingual_v2"]>>

\* line 118: return success_count == len(test_phrases)
MainResultAny(sc) == sc > 0
MainResult(sc) == sc = NumPhrases

\* line 122: exit(0 if success else 1)
ExitCode(success) == IF success THEN 0 ELSE 1

\* ------------------------------------------------------------------- Init

InitGen ==
  /\ pc = "idle" /\ run = 0 /\ api_key = FALSE
  /\ dir_exists = FALSE
  /\ files = [f \in Filenames |-> Absent]
  /\ meta = Absent
  /\ i = 1 /\ success_count = 0 /\ resp = "none" /\ exc = "none"
  /\ calls = <<>> /\ oks = {} /\ log = <<>> /\ written = {} /\ meta_writes = 0
  /\ result = FALSE /\ exit_code = -1
  /\ pre_dir = FALSE /\ pre_files = [f \in Filenames |-> Absent]
  /\ pre_meta = Absent

\* ---------------------------------------------------------------- actions

\* The script is started (lines 120-121); the environment may or may not
\* hold the credential.
StartRun(key) ==
  /\ pc \in {"idle", "exited", "crashed"}
  /\ run < MaxRuns
  /\ run' = run + 1
  /\ api_key' = key
  /\ pc' = "getenv"
  /\ i' = 1 /\ success_count' = 0 /\ resp' = "none" /\ exc' = "none"
  /\ calls' = <<>> /\ oks' = {} /\ log' = <<>> /\ written' = {}
  /\ meta_writes' = 0 /\ result' = FALSE /\ exit_code' = -1
  /\ pre_dir' = dir_exists /\ pre_files' = files /\ pre_meta' = meta
  /\ UNCHANGED << dir_exists, files, meta, evars >>

\* lines 46-49 (and 121-122 for the early return)
GetApiKey ==
  /\ pc = "getenv"
  /\ IF KeyMissing(api_key)
       THEN /\ result' = FALSE
            /\ exit_code' = ExitCode(FALSE)
            /\ pc' = "exited"
       ELSE /\ pc' = "mkdir"
            /\ UNCHANGED << result, exit_code >>
  /\ UNCHANGED << run, api_key, dir_exists, files, meta, i, success_count, resp,
                  exc, calls, oks, log, written, meta_writes,
                  pre_dir, pre_files, pre_meta, evars >>

\* lines 52-53
MakeDir ==
  /\ pc = "mkdir"
  /\ IF Mkdir(dir_exists, ExistOk) = "ok"
       THEN /\ dir_exists' = TRUE
            /\ pc' = "loop"
            /\ UNCHANGED << exc, exit_code >>
       ELSE /\ exc' = Mkdir(dir_exists, ExistOk)
            /\ pc' = "crashed"
            /\ exit_code' = 1
            /\ UNCHANGED dir_exists
  /\ UNCHANGED << run, api_key, files, meta, i, success_count, resp,
                  calls, oks, log, written, meta_writes, result,
                  pre_dir, pre_files, pre_meta, evars >>

\* line 90: the for loop takes the next phrase, or ends
LoopNext ==
  /\ pc = "loop"
  /\ pc' = IF i <= NumPhrases THEN "post" ELSE "metadata"
  /\ UNCHANGED << run, api_key, dir_exists, files, meta, i, success_count, resp,
                  exc, calls, oks, log, written, meta_writes, result, exit_code,
                  pre_dir, pre_files, pre_meta, evars >>

\* line 31: requests.post is called for the current phrase
Post ==
  /\ pc = "post"
  /\ calls' = Append(calls, test_phrases[i].filename)
  /\ pc' = "await"
  /\ UNCHANGED << run, api_key, dir_exists, files, meta, i, success_count, resp,
                  exc, oks, log, written, meta_writes, result, exit_code,
                  pre_dir, pre_files, pre_meta, evars >>

\* line 31: requests.post returns a response or raises a transport error
Respond(o) ==
  /\ pc = "await"
  /\ resp' = o
  /\ IF o = "transport_error"
       THEN /\ exc' = "RequestException"
            /\ pc' = "raised"
       ELSE /\ pc' = "raise_for_status"
            /\ UNCHANGED exc
  /\ UNCHANGED << run, api_key, dir_exists, files, meta, i, success_count,
                  calls, oks, log, written, meta_writes, result, exit_code,
                  pre_dir, pre_files, pre_meta, evars >>

\* line 32
RaiseForStatus ==
  /\ pc = "raise_for_status"
  /\ IF RaisesForStatus(resp)
       THEN /\ exc' = "RequestException"
            /\ pc' = "raised"
            /\ UNCHANGED oks
       ELSE /\ pc' = "open"
            /\ oks' = IF resp = "ok" THEN oks \cup {test_phrases[i].filename}
                                     ELSE oks
            /\ UNCHANGED exc
  /\ UNCHANGED << run, api_key, dir_exists, files, meta, i, success_count, resp,
                  calls, log, written, meta_writes, result, exit_code,
                  pre_dir, pre_files, pre_meta, evars >>

\* line 34: open(output_path, 'wb') creates or truncates the file, or fails
OpenFile(fs_ok) ==
  /\ pc = "open"
  /\ IF fs_ok
       THEN /\ files' = [files EXCEPT ![test_phrases[i].filename] = Empty]
            /\ pc' = "write"
            /\ UNCHANGED exc
       ELSE /\ exc' = "OSError"
            /\ pc' = "raised"
            /\ UNCHANGED files
  /\ UNCHANGED << run, api_key, dir_exists, meta, i, success_count, resp,
                  calls, oks, log, written, meta_writes, result, exit_code,
                  pre_dir, pre_files, pre_meta, evars >>

\* lines 35-38 and 92-93: the bytes are written, the call returns True and
\* main counts the success; or the write fails
WriteFile(fs_ok) ==
  /\ pc = "write"
  /\ IF fs_ok
       THEN /\ files' = [files EXCEPT ![test_phrases[i].filename] = Audio(run)]
            /\ written' = written \cup {test_phrases[i].filename}
            /\ success_count' = success_count + 1
            /\ i' = i + 1
            /\ resp' = "none"
            /\ pc' = "loop"
            /\ UNCHANGED exc
       ELSE /\ exc' = "OSError"
            /\ pc' = "raised"
            /\ UNCHANGED << files, written, success_count, i, resp >>
  /\ UNCHANGED << run, api_key, dir_exists, meta,
                  calls, oks, log, meta_writes, result, exit_code,
                  pre_dir, pre_files, pre_meta, evars >>

\* lines 40-42 and 92: the except clause reports the phrase and returns False,
\* the loop goes on; any other exception leaves main() and ends the process
HandleException ==
  /\ pc = "raised"
  /\ IF Catches(exc)
       THEN /\ log' = Append(log, test_phrases[i].text)
            /\ files' = FilesAfterFailure(files, test_phrases[i].filename)
            /\ i' = i + 1
            /\ resp' = "none"
            /\ exc' = "none"
            /\ pc' = "loop"
            /\ UNCHANGED exit_code
       ELSE /\ pc' = "crashed"
            /\ exit_code' = 1
            /\ UNCHANGED << log, files, i, resp, exc >>
  /\ UNCHANGED << run, api_key, dir_exists, meta, success_count,
                  calls, oks, written, meta_writes, result,
                  pre_dir, pre_files, pre_meta, evars >>

\* lines 95-113
WriteMetadata ==
  /\ pc = "metadata"
  /\ meta' = Metadata(run)
  /\ meta_writes' = meta_writes + 1
  /\ pc' = "report"
  /\ UNCHANGED << run, api_key, dir_exists, files, i, success_count, resp,
                  exc, calls, oks, log, written, result, exit_code,
                  pre_dir, pre_files, pre_meta, evars >>

\* lines 115-118 and 121-122
ReturnMain ==
  /\ pc = "report"
  /\ result' = MainResult(success_count)
  /\ exit_code' = ExitCode(MainResult(success_count))
  /\ pc' = "exited"
  /\ UNCHANGED << run, api_key, dir_exists, files, meta, i, success_count, resp,
                  exc, calls, oks, log, written, meta_writes,
                  pre_dir, pre_files, pre_meta, evars >>


NextGen ==
  \/ \E key \in BOOLEAN : StartRun(key)
  \/ GetApiKey
  \/ MakeDir
  \/ LoopNext
  \/ Post
  \/ \E o \in {"ok", "http_error", "transport_error"} : Respond(o)
  \/ RaiseForStatus
  \/ \E fs_ok \in BOOLEAN : OpenFile(fs_ok)
  \/ \E fs_ok \in BOOLEAN : WriteFile(fs_ok)
  \/ HandleException
  \/ WriteMetadata
  \/ ReturnMain

\* =========================================================================
\*  Model Exporter  (convert_model.py)
\* =========================================================================

Modules == {"coremltools", "torch", "transformers", "numpy"}

\* lines 6-9: the modules imported when the module body runs
TopLevelImports == {"coremltools", "torch", "transformers", "numpy"}

\* lines 62-64: the modules the __main__ block tries to import
CheckedImports == {"coremltools", "transformers", "torch"}

NoArtifact   == <<"absent">>
Partial      == <<"partial">>
MlPackage(r) == <<"mlpackage", r>>      \* KotobaWhisperEncoder.mlpackage of run r

\* A step of download_and_convert that raises ends the process (there is no
\* try block in lines 11-57); otherwise control goes to the next statement.
AfterStepSwallow(ok, next) == next
AfterStep(ok, next) == IF ok THEN next ELSE "crashed"

InitExp ==
  /\ e_pc = "idle" /\ e_run = 0 /\ installed = Modules /\ hub_ok = TRUE
  /\ artifact = NoArtifact /\ pre_artifact = NoArtifact
  /\ e_trail = <<>> /\ e_out = {} /\ e_exit = -1

\* python convert_model.py is started in an environment with some of the
\* modules installed and the model identifier available on the hub or not
ExpStart(inst, hub) ==
  /\ e_pc \in {"idle", "exited", "crashed"}
  /\ e_run < MaxRuns
  /\ e_run' = e_run + 1
  /\ installed' = inst /\ hub_ok' = hub
  /\ e_pc' = "imports"
  /\ e_trail' = <<>> /\ e_out' = {} /\ e_exit' = -1
  /\ pre_artifact' = artifact
  /\ UNCHANGED << artifact, gvars >>

\* lines 6-9: an import of a module that is not installed raises ImportError
\* at module level, the interpreter prints the traceback and exits with 1
ImportModules ==
  /\ e_pc = "imports"
  /\ IF TopLevelImports \subseteq installed
       THEN /\ e_pc' = "main"
            /\ UNCHANGED << e_out, e_exit >>
       ELSE /\ e_pc' = "crashed"
            /\ e_out' = e_out \cup {"traceback"}
            /\ e_exit' = 1
  /\ UNCHANGED << e_run, installed, hub_ok, artifact, e_trail, pre_artifact, gvars >>

\* lines 59-68: the dependency check of the __main__ block
CheckDependencies ==
  /\ e_pc = "main"
  /\ IF CheckedImports \subseteq installed
       THEN /\ e_pc' = "load_processor"
            /\ UNCHANGED << e_out, e_exit >>
       ELSE /\ e_out' = e_out \cup {"hint"}
            /\ e_exit' = 1
            /\ e_pc' = "exited"
  /\ UNCHANGED << e_run, installed, hub_ok, artifact, e_trail, pre_artifact, gvars >>

\* One statement of download_and_convert: it completes, or it raises and the
\* exception leaves the function and the process.
ExpStep(at, ok, next) ==
  /\ e_pc = at
  /\ e_pc' = AfterStep(ok, next)
  /\ e_trail' = IF ok THEN Append(e_trail, at) ELSE e_trail
  /\ IF AfterStep(ok, next) = "crashed"
       THEN /\ e_out' = e_out \cup {"traceback"}
            /\ e_exit' = 1
       ELSE UNCHANGED << e_out, e_exit >>
  /\ UNCHANGED << e_run, installed, hub_ok, pre_artifact, gvars >>

\* line 16: WhisperProcessor.from_pretrained(model_name)
LoadProcessor(ok) ==
  /\ ok => hub_ok
  /\ ExpStep("load_processor", ok, "load_model")
  /\ UNCHANGED artifact

\* line 17: WhisperForConditionalGeneration.from_pretrained(model_name)
LoadModel(ok) ==
  /\ ok => hub_ok
  /\ ExpStep("load_model", ok, "eval")
  /\ UNCHANGED artifact

\* line 18: model.eval()
Eval ==
  /\ ExpStep("eval", TRUE, "trace")
  /\ UNCHANGED artifact

\* lines 27-31: torch.jit.trace(model.model.encoder, example_input_features)
Trace(ok) ==
  /\ ExpStep("trace", ok, "convert")
  /\ UNCHANGED artifact

\* lines 34-40: ct.convert(...)
Convert(ok) ==
  /\ ExpStep("convert", ok, "save")
  /\ UNCHANGED artifact

\* line 42: encoder_model.save("KotobaWhisperEncoder.mlpackage"); a save that
\* raises may or may not have touched the path
Save(ok) ==
  /\ ExpStep("save", ok, "saved")
  /\ IF ok THEN artifact' = MlPackage(e_run)
           ELSE artifact' \in {artifact, Partial}

\* lines 43-57 and the end of the script
Finish ==
  /\ e_pc = "saved"
  /\ e_out' = e_out \cup {"saved"}
  /\ e_exit' = 0
  /\ e_pc' = "exited"
  /\ UNCHANGED << e_run, installed, hub_ok, artifact, e_trail, pre_artifact, gvars >>

NextExp ==
  \/ \E inst \in SUBSET Modules, hub \in BOOLEAN : ExpStart(inst, hub)
  \/ ImportModules
  \/ CheckDependencies
  \/ \E ok \in BOOLEAN : LoadProcessor(ok)
  \/ \E ok \in BOOLEAN : LoadModel(ok)
  \/ Eval
  \/ \E ok \in BOOLEAN : Trace(ok)
  \/ \E ok \in BOOLEAN : Convert(ok)
  \/ \E ok \in BOOLEAN : Save(ok)
  \/ Finish

\* =========================================================================
\*  Specifications
\* =========================================================================

Init == InitGen /\ InitExp

Next == NextGen

Spec == Init /\ [][Next]_vars

SpecExporter == Init /\ [][NextExp]_vars


\* =========================================================================
\*  Properties
\* =========================================================================

Terminated == pc \in {"exited", "crashed"}

\* No open() or write() of an audio file has raised in this run.
NoFsError == exc # "OSError"

\* The phrases whose iteration of the for loop is over.
Completed == { test_phrases[k].filename : k \in 1..(i - 1) }

\* The metadata document on disk is the one of run r and lists every
\* configured phrase, in input order.
FullMetadata(r) ==
  /\ meta[1] = "json"
  /\ meta[2] = r
  /\ Len(meta[3].test_audio_files) = NumPhrases
  /\ \A k \in 1..NumPhrases :
       /\ meta[3].test_audio_files[k].filename = test_phrases[k].filename
       /\ meta[3].test_audio_files[k].text = test_phrases[k].text
       /\ meta[3].test_audio_files[k].expected_transcription = test_phrases[k].expected

\* C1: when the credential is absent, main() returns False (exit status 1)
\* straight from the credential check, and no request has been made.
C1_MissingKeyNoNetwork ==
  (run > 0 /\ ~api_key) =>
     /\ pc \in {"getenv", "exited"}
     /\ calls = <<>>
     /\ pc = "exited" => (result = FALSE /\ exit_code = 1)

C1_Witness ==
  run > 0 /\ ~api_key /\ pc = "exited" /\ result = FALSE /\ calls = <<>>

\* C2: with the credential present, when main() returns the audio files
\* written in the run are exactly those of the phrases whose request
\* succeeded (every other file is as it was before the run), and the metadata
\* document was written once and lists every phrase: five of five requests
\* give five files, four of five give four files.  Before that, no file is
\* written for a phrase whose request did not succeed.
C2_FilesMatchSuccesses ==
  /\ written \subseteq oks
  /\ (Terminated /\ api_key /\ NoFsError) =>
       /\ written = oks
       /\ \A f \in Filenames :
            files[f] = IF f \in oks THEN Audio(run) ELSE pre_files[f]
       /\ meta_writes = 1
       /\ FullMetadata(run)
       /\ Cardinality({ f \in Filenames : files[f] = Audio(run) }) = Cardinality(oks)
       /\ result = (Cardinality(written) = NumPhrases)

C2_Witness ==
  /\ pc = "exited" /\ api_key
  /\ Cardinality(oks) = NumPhrases - 1
  /\ Cardinality(written) = NumPhrases - 1
  /\ meta_writes = 1
  /\ result = FALSE

\* C3: once the loop over the phrases is over, the metadata document is
\* written, whatever the number of successes, and it has one entry per
\* configured phrase.
C3_MetadataAlwaysFull ==
  /\ pc = "metadata" => (i = NumPhrases + 1 /\ Len(calls) = NumPhrases /\ meta_writes = 0)
  /\ (api_key /\ pc \in {"report", "exited"}) =>
       /\ meta_writes = 1
       /\ meta[1] = "json" /\ meta[2] = run
       /\ Len(meta[3].test_audio_files) = NumPhrases
       /\ \A k \in 1..NumPhrases :
            meta[3].test_audio_files[k].filename = test_phrases[k].filename

C3_Witness ==
  /\ pc = "exited" /\ api_key /\ oks = {} /\ success_count = 0
  /\ meta_writes = 1
  /\ Len(meta[3].test_audio_files) = NumPhrases

C6_NoArtifactOnFailure ==
  /\ artifact # pre_artifact =>
       /\ Len(e_trail) >= 5
       /\ SubSeq(e_trail, 1, 5) =
            <<"load_processor", "load_model", "eval", "trace", "convert">>
  /\ (e_pc = "crashed" /\ Len(e_trail) < 5) =>
       (artifact = pre_artifact /\ e_exit = 1)
  /\ (e_run > 0 /\ ~hub_ok) =>
       /\ e_trail = <<>>
       /\ artifact = pre_artifact
       /\ e_pc \notin {"load_model", "eval", "trace", "convert", "save", "saved"}
       /\ e_exit # 0

C6_Witness ==
  /\ e_pc = "crashed" /\ ~hub_ok /\ installed = Modules
  /\ e_trail = <<>> /\ artifact = pre_artifact /\ "traceback" \in e_out

\* C5 (as claimed): a run with torch, transformers or coremltools missing ends
\* with the remediation hint printed by the dependency check, status 1, and
\* no step of the export attempted.
C5_PreflightReportsMissing ==
  (e_pc \in {"exited", "crashed"} /\ ~(CheckedImports \subseteq installed)) =>
     /\ "hint" \in e_out
     /\ e_exit = 1
     /\ e_trail = <<>>
     /\ artifact = pre_artifact

\* C7: in a run started with the output directory already there, mkdir does
\* not fail, and when main() returns every file whose request succeeded and
\* the metadata document hold the content of this run.
C7_RerunOverwrites ==
  /\ exc # "FileExistsError"
  /\ pc = "crashed" => exc = "OSError"
  /\ (pre_dir /\ api_key /\ pc \notin {"getenv", "mkdir"}) => dir_exists
  /\ (pre_dir /\ api_key /\ pc = "exited") =>
       /\ \A f \in oks : files[f] = Audio(run)
       /\ meta[1] = "json" /\ meta[2] = run

C7_Witness ==
  /\ run = 2 /\ pre_dir /\ api_key /\ pc = "exited"
  /\ pre_meta[1] = "json" /\ pre_meta[2] = 1 /\ meta[2] = 2
  /\ \E f \in Filenames : pre_files[f] = Audio(1) /\ files[f] = Audio(2)

\* C8: requests are made one per phrase, in input order, the next one only
\* after the iteration of the previous phrase is over; a failed request is
\* reported and never ends the run, so a run that is not cut short by a
\* filesystem error has made exactly one request per configured phrase.
C8_OneRequestPerPhrase ==
  /\ Len(calls) <= NumPhrases
  /\ \A k \in 1..Len(calls) : calls[k] = test_phrases[k].filename
  /\ pc \in {"loop", "post", "metadata", "report"} => Len(calls) = i - 1
  /\ pc \in {"await", "raise_for_status", "open", "write", "raised"} => Len(calls) = i
  /\ exc = "RequestException" => pc = "raised"
  /\ Len(log) + success_count = i - 1
  /\ \A k \in 1..Len(log) : \E j \in 1..(i - 1) :
        /\ log[k] = test_phrases[j].text
        /\ test_phrases[j].filename \notin written
  /\ (Terminated /\ api_key /\ NoFsError) =>
        (pc = "exited" /\ Len(calls) = NumPhrases /\ i = NumPhrases + 1)

C8_Witness ==
  /\ pc = "exited" /\ api_key
  /\ Len(calls) = NumPhrases
  /\ Len(log) >= 1 /\ log[1] = test_phrases[1].text
  /\ test_phrases[NumPhrases].filename \in written

\* C9: the file of a phrase whose request has not succeeded in this run is
\* as it was when the run started.
C9_FailedPhraseLeavesFile ==
  \A f \in Filenames : f \notin oks => files[f] = pre_files[f]

C9_Witness ==
  /\ run = 2
  /\ \E f \in Completed :
       /\ f \notin oks
       /\ pre_files[f] = Audio(1)
       /\ files[f] = Audio(1)

\* C10: an OSError raised by open() or write() is not handled per phrase: the
\* loop never goes on to a later phrase after it, the process ends with the
\* exception, no further request is made and the metadata document of the
\* run is not written.
C10_FsErrorPropagates ==
  /\ \A f \in Completed : f \in oks => f \in written
  /\ exc = "OSError" => pc \in {"raised", "crashed"}
  /\ (pc = "crashed" /\ exc = "OSError") =>
       /\ Len(calls) = i
       /\ meta_writes = 0
       /\ meta = pre_meta
       /\ exit_code = 1
       /\ test_phrases[i].filename \in oks
       /\ test_phrases[i].filename \notin written

C10_Witness ==
  /\ pc = "crashed" /\ exc = "OSError"
  /\ i < NumPhrases /\ Len(calls) = i
  /\ meta_writes = 0 /\ meta = pre_meta

====
